---- MODULE Spec2Model ----
(***************************************************************************)
(* Session bookkeeping of the OmniAI backend: persisted sessions of the    *)
(* chat, business, social and agents routes (read - modify - upsert),      *)
(* the $push based sessions of the global-language and student services,   *)
(* the in-memory temporary chat sessions and the group chat service.       *)
(*                                                                         *)
(* Every feature module owns its own collection and no handler touches     *)
(* the collection of another module, so a behaviour exercises one module:  *)
(* `module' is drawn in Init and never changes.  A handler is split into   *)
(* atomic steps at the awaits that separate its reads and writes of the    *)
(* shared store; the calls to the language-model API in between touch no   *)
(* shared state and their outcome is an input of the step.                 *)
(***************************************************************************)
EXTENDS Integers, Sequences, FiniteSets, TLC

\* ------------------------------------------------------------------ bounds
MaxRequests == 2    \* send / save / process requests that pass their lookup, per behaviour
MaxSessions == 1    \* identifiers issued by create_session per behaviour
MaxGroups == 1    \* identifiers issued by create_group per behaviour
MaxGroupSessions == 2    \* identifiers issued by the group chat create_session
MaxGroupSends == 2    \* group send_message requests per behaviour
MaxJoins == 1    \* join_group requests that add a member per behaviour
MaxJoinSessions == 3    \* group chat sessions in the behaviours of concurrent joins
MaxJoinRequests == 2    \* join_group requests that add a member in those behaviours
MaxLines == 5    \* lines of a completion text handed to _parse_suggestions

\* ------------------------------------------------------- program constants
ShortTitleLen == 40     \* generate_title: messages up to 40 characters are the title
MaxTitleLen == 50    \* generate_title: a generated title longer than 50 is cut
TitleKeep     == 47     \* generate_title: ... to 47 characters plus "..."
PromptDataLen == 100    \* save_business_interaction: str(request_data)[:100]
MinSuggestionLen == 10    \* _parse_suggestions: a line is kept when len(line) > 10
MaxSuggestions == 4    \* _parse_suggestions: suggestions[:4]

Users      == {"u1", "u2"}
JoinUsers  == Users \cup {"u3"}
SessionIds == 1..MaxSessions
GroupIds   == 1..MaxGroups
GroupSessionIds == 1..MaxGroupSessions
NoDoc      == [absent |-> TRUE]

SessionModules == {"chat", "business", "social", "agents"}
PushModules    == {"global_language", "student"}
Modules        == SessionModules \cup PushModules \cup {"temp_chat", "group_chat"}

\* ----------------------------------------------------------------- strings
\* A Python str is a sequence of one-character strings.
Rep(c, n) == [i \in 1..n |-> c]

\* s[:n]
Take(s, n) == SubSeq(s, 1, IF n < Len(s) THEN n ELSE Len(s))

RECURSIVE lstrip(_, _)
lstrip(s, cs) == IF s # <<>> /\ Head(s) \in cs THEN lstrip(Tail(s), cs) ELSE s

RECURSIVE rstrip(_, _)
rstrip(s, cs) ==
    IF s # <<>> /\ s[Len(s)] \in cs THEN rstrip(SubSeq(s, 1, Len(s) - 1), cs) ELSE s

\* str.strip(chars); str.strip() strips white space
strip_chars(s, cs) == rstrip(lstrip(s, cs), cs)
strip(s) == strip_chars(s, {" "})

Ellipsis == <<".", ".", ".">>

\* The truncation without the strip().
truncated_title_unstripped(text) ==
    Take(text, ShortTitleLen)
        \o (IF Len(text) > ShortTitleLen THEN Ellipsis ELSE <<>>)

\* first_message[:40].strip() + ("..." if len(first_message) > 40 else "")
truncated_title(text) ==
    strip(Take(text, ShortTitleLen))
        \o (IF Len(text) > ShortTitleLen THEN Ellipsis ELSE <<>>)

\* The clean-up generate_title applies to the model's answer.
clean_title(raw) ==
    LET title == strip(strip_chars(strip_chars(strip(raw), {"\""}), {"'"}))
    IN  IF Len(title) > MaxTitleLen THEN Take(title, TitleKeep) \o Ellipsis ELSE title

\* What the completion call inside generate_title does: it throws, or the
\* model answers with one of these texts.
TitleApi == {"fail", "quoted", "long"}
raw_title(api) ==
    IF api = "quoted" THEN <<"\"", "T", "r", "i", "p", " ", "\"">>
    ELSE Rep("t", MaxTitleLen + 1)

\* OpenAIService.generate_title once the client is initialised: `api' is
\* "fail" when the completion call throws, else the text the model returns.
generate_title(first_message, api) ==
    IF Len(first_message) <= ShortTitleLen THEN strip(first_message)
    ELSE IF api = "fail" THEN truncated_title(first_message)
    ELSE clean_title(raw_title(api))

\* ------------------------------------------------------ _parse_suggestions
Digits == {"0", "1", "2", "3", "4", "5", "6", "7", "8", "9"}
WhiteSpace == {" ", "\n"}

\* response.split('\n')
RECURSIVE split_lines(_)
split_lines(text) ==
    IF \A k \in 1..Len(text) : text[k] # "\n" THEN <<text>>
    ELSE LET k == CHOOSE j \in 1..Len(text) :
                      text[j] = "\n" /\ \A h \in 1..(j - 1) : text[h] # "\n"
         IN  <<SubSeq(text, 1, k - 1)>> \o split_lines(SubSeq(text, k + 1, Len(text)))

\* re.sub(r'^\d+[\.\)]\s*', '', line)
strip_number(line) ==
    LET rest == lstrip(line, Digits)
    IN  IF Len(rest) < Len(line) /\ rest # <<>> /\ Head(rest) \in {".", ")"}
        THEN lstrip(Tail(rest), WhiteSpace)
        ELSE line

\* re.sub(r'^[-*\u2022]\s*', '', line); the bullet character U+2022 is in
\* none of the texts below.
strip_bullet(line) ==
    IF line # <<>> /\ Head(line) \in {"-", "*"}
    THEN lstrip(Tail(line), WhiteSpace)
    ELSE line

\* The body of the loop up to the test: strip, both re.sub, strip.
clean_line(line) ==
    strip_chars(strip_bullet(strip_number(strip_chars(line, WhiteSpace))), WhiteSpace)

\* The list the loop builds: the cleaned lines longer than 10 characters.
RECURSIVE collect_suggestions(_)
collect_suggestions(lines) ==
    IF lines = <<>> THEN <<>>
    ELSE LET line == clean_line(Head(lines))
         IN  (IF strip_chars(Head(lines), WhiteSpace) # <<>>
                 /\ line # <<>> /\ Len(line) > MinSuggestionLen
              THEN <<line>> ELSE <<>>)
             \o collect_suggestions(Tail(lines))

\* The parser returning every collected suggestion.
parse_suggestions_uncapped(text) ==
    LET suggestions == collect_suggestions(split_lines(text))
    IN  IF suggestions # <<>> THEN suggestions
        ELSE <<strip_chars(text, WhiteSpace)>>

\* AgentsService._parse_suggestions
parse_suggestions(text) ==
    LET suggestions == collect_suggestions(split_lines(text))
    IN  IF Len(suggestions) < MaxSuggestions /\ suggestions # <<>>
        THEN (IF Len(suggestions) >= MaxSuggestions
              THEN Take(suggestions, MaxSuggestions) ELSE suggestions)
        ELSE IF suggestions # <<>> THEN Take(suggestions, MaxSuggestions)
        ELSE <<strip_chars(text, WhiteSpace)>>

\* The lines a completion text is made of: white space only, nine
\* characters behind a bullet, exactly ten characters, eleven characters,
\* a numbered line with white space around it, and a line with a number
\* and a bullet.
TextLines ==
    { <<" ", " ">>,
      <<"-", " ">> \o Rep("s", MinSuggestionLen - 1),
      Rep("t", MinSuggestionLen),
      Rep("p", MinSuggestionLen + 1),
      <<" ", "1", "2", ".", " ">> \o Rep("n", MinSuggestionLen + 1) \o <<" ">>,
      <<"1", ")", " ", "*", " ">> \o Rep("b", MinSuggestionLen + 1) }

\* '\n'.join(lines)
RECURSIVE join_lines(_)
join_lines(lines) ==
    IF lines = <<>> THEN <<>>
    ELSE IF Len(lines) = 1 THEN Head(lines)
    ELSE Head(lines) \o <<"\n">> \o join_lines(Tail(lines))

\* The completion texts: up to MaxLines lines.
Completions ==
    {join_lines(ls) : ls \in UNION {[1..n -> TextLines] : n \in 0..MaxLines}}

\* ------------------------------------------------------------------ inputs
MsgEmpty == <<>>
MsgShort == <<"h", "i", " ">>
MsgLong  == <<" ">> \o Rep("a", ShortTitleLen)
Messages == {MsgEmpty, MsgShort, MsgLong}

Transcript == <<"y", "o">>
AudioInputs == {"none", "fail", "speech"}

\* ------------------------------------------------------------------- state
VARIABLES
    module,          \* the feature module this behaviour exercises
    OPENAI_API_KEY,  \* TRUE iff settings.OPENAI_API_KEY is set (cached for the process)
    collection,      \* the module's session collection: session_id -> document
    TEMP_SESSIONS,   \* temp_chat_routes.TEMP_SESSIONS: session_id -> ChatSession
    group_chat_sessions, \* the "group_chat_sessions" collection
    groups,          \* the "groups" collection: group_id -> document
    issued,          \* session (group chat: group) identifiers handed out so far
    reqs,            \* requests that passed their first step, in arrival order
    response         \* the HTTP response emitted last

vars == <<module, OPENAI_API_KEY, collection, TEMP_SESSIONS, group_chat_sessions,
          groups, issued, reqs, response>>

\* A stored session.  `entries' is the field `messages' of ChatSession and
\* `interactions' of the other session models; an entry is named by the
\* request that appended it.
Session(user_id, title, entries) ==
    [user_id |-> user_id, title |-> title, entries |-> entries]

Entry(rid, role) == [id |-> rid, role |-> role]

\* Default titles given by the create handlers.
default_title(m) ==
    CASE m = "chat"      -> <<"N", "e", "w", " ", "C", "h", "a", "t">>
      [] m = "temp_chat" -> <<"T", "e", "m", "p", "o", "r", "a", "r", "y", " ", "C", "h", "a", "t">>
      [] m = "business"  -> <<"N", "e", "w", " ", "B", "u", "s", "i", "n", "e", "s", "s", " ", "S", "e", "s", "s", "i", "o", "n">>
      [] m = "social"    -> <<"N", "e", "w", " ", "S", "o", "c", "i", "a", "l", " ", "S", "e", "s", "s", "i", "o", "n">>
      [] m = "agents"    -> <<"N", "e", "w", " ", "A", "g", "e", "n", "t", " ", "S", "e", "s", "s", "i", "o", "n">>
      [] OTHER           -> <<>>

\* find_one with the owner left out of the filter.
find_one_any_owner(coll, session_id, user_id) == coll[session_id]

\* collection.find_one({"session_id": session_id, "user_id": user_id})
find_one(coll, session_id, user_id) ==
    IF coll[session_id] # NoDoc /\ coll[session_id].user_id = user_id
    THEN coll[session_id] ELSE NoDoc

\* collection.find_one({"session_id": session_id})
find_by_id(coll, session_id) == coll[session_id]

\* collection.update_one({"session_id":..,"user_id":..}, {"$set": dump}, upsert=True):
\* the matching document is replaced by the dump; when none matches, the
\* dump is inserted.
update_one_upsert(coll, session_id, doc) == [coll EXCEPT ![session_id] = doc]

\* collection.update_one({"session_id": session_id}, {"$push": {"interactions": e}}):
\* appends to the stored list; no document is created when none matches.
\* The update written with $set, keeping only the newest interaction.
update_one_set(coll, session_id, e) ==
    IF coll[session_id] = NoDoc THEN coll
    ELSE [coll EXCEPT ![session_id].entries = <<e>>]

update_one_push(coll, session_id, e) ==
    IF coll[session_id] = NoDoc THEN coll
    ELSE [coll EXCEPT ![session_id].entries = Append(@, e)]

\* delete_one reporting a deletion whether or not a document matched.
delete_one_always_counts(coll, session_id, matches) ==
    [coll |-> [coll EXCEPT ![session_id] = NoDoc], deleted_count |-> 1]

\* collection.delete_one(filter): the collection left and deleted_count.
delete_one(coll, session_id, matches) ==
    IF matches THEN [coll |-> [coll EXCEPT ![session_id] = NoDoc], deleted_count |-> 1]
    ELSE [coll |-> coll, deleted_count |-> 0]

NoRequest ==
    [op |-> "none", user_id |-> "", session_id |-> 0, group_id |-> 0,
     pc |-> "done", status |-> 0, cause |-> "", first |-> FALSE,
     title_gen |-> "none", input |-> <<>>, session |-> NoDoc, repeat |-> FALSE]

\* A response: the request it answers, the status code and the statement
\* that raised (cause), with what the handler did about the title.  For a
\* delete, repeat tells that it repeats the request answered just before,
\* which had succeeded.
Respond(op, user_id, session_id, status, cause) ==
    [NoRequest EXCEPT !.op = op, !.user_id = user_id, !.session_id = session_id,
                      !.status = status, !.cause = cause]

Init ==
    /\ module \in Modules
    /\ OPENAI_API_KEY \in BOOLEAN
    /\ collection = [s \in SessionIds |-> NoDoc]
    /\ TEMP_SESSIONS = [s \in SessionIds |-> NoDoc]
    /\ group_chat_sessions = [s \in GroupSessionIds |-> NoDoc]
    /\ groups = [g \in GroupIds |-> NoDoc]
    /\ issued = 0
    /\ reqs = <<>>
    /\ response = NoRequest

\* ------------------------------------------- create / history / delete
\* The request answered last was this delete, and it succeeded.
Repeats(user_id, session_id) ==
    /\ response.op = "delete" /\ response.status = 200
    /\ response.user_id = user_id /\ response.session_id = session_id

\* create_session of chat, business, social, agents, global-language,
\* student and group chat: insert_one of a document with a fresh uuid4.
create_session(user_id) ==
    /\ module \in SessionModules \cup PushModules
    /\ issued < MaxSessions
    /\ issued' = issued + 1
    /\ collection' = [collection EXCEPT
                        ![issued + 1] = Session(user_id, default_title(module), <<>>)]
    /\ response' = Respond("create_session", user_id, issued + 1, 201, "")
    /\ UNCHANGED <<group_chat_sessions, module, OPENAI_API_KEY, TEMP_SESSIONS, groups, reqs>>

\* get_session_history (chat, business, social, agents): owner-scoped find_one.
get_session_history(user_id, session_id) ==
    /\ module \in SessionModules
    /\ LET session == find_one(collection, session_id, user_id)
       IN  response' = IF session = NoDoc
                       THEN Respond("history", user_id, session_id, 404, "lookup")
                       ELSE [Respond("history", user_id, session_id, 200, "")
                                EXCEPT !.session = session]
    /\ UNCHANGED <<group_chat_sessions, module, OPENAI_API_KEY, collection, TEMP_SESSIONS, groups,
                   issued, reqs>>

\* delete_session (chat, business, social, agents): owner-scoped delete_one.
delete_session(user_id, session_id) ==
    /\ module \in SessionModules
    /\ LET result == delete_one(collection, session_id,
                                find_one(collection, session_id, user_id) # NoDoc)
       IN  /\ collection' = result.coll
           /\ response' = [(IF result.deleted_count = 0
                            THEN Respond("delete", user_id, session_id, 404, "lookup")
                            ELSE Respond("delete", user_id, session_id, 200, ""))
                              EXCEPT !.repeat = Repeats(user_id, session_id)]
    /\ UNCHANGED <<group_chat_sessions, module, OPENAI_API_KEY, TEMP_SESSIONS, groups, issued, reqs>>

\* ------------------------------------------------------ title generation
\* f"{user_message_text} {transcribed_text}" or the transcription alone
transcription(audio) == IF audio = "speech" THEN Transcript ELSE <<>>

user_message_text(message, audio) ==
    IF audio = "none" THEN message
    ELSE IF message # <<>> THEN message \o <<" ">> \o transcription(audio)
    ELSE transcription(audio)

\* transcribe_audio throws: the speech API fails, or the client cannot be
\* initialised because the key is missing.
transcribe_fails(audio) == audio # "none" /\ (audio = "fail" \/ ~OPENAI_API_KEY)

\* The `except' branch around generate_title in each route.
chat_fallback_title(text) ==
    strip(Take(text, ShortTitleLen))
        \o (IF Len(text) > ShortTitleLen THEN Ellipsis ELSE <<>>)

tool_name  == <<"A", "d", " ", "G", "e", "n", "e", "r", "a", "t", "o", "r">>
platform   == <<"i", "g">>
social_tool == <<"C", "a", "p", "t", "i", "o", "n">>
agent_type == <<"l", "e", "g", "a", "l">>

business_fallback_title == tool_name \o <<" ", "S", "e", "s", "s", "i", "o", "n">>
social_fallback_title   == platform \o <<" ">> \o social_tool
agents_fallback_title   == <<"L">> \o Tail(agent_type) \o <<" ", "A", "g", "e", "n", "t">>

\* The text each route hands to generate_title.
business_title_prompt(request_data) ==
    tool_name \o <<":", " ">> \o Take(request_data, PromptDataLen)

social_title_prompt(topic) ==
    platform \o <<" ">> \o social_tool \o <<":", " ">> \o topic

agents_title_prompt(user_input) ==
    IF user_input # <<>> THEN agent_type \o <<" ", "A", "g", "e", "n", "t", ":", " ">> \o user_input
    ELSE agent_type \o <<" ", "A", "g", "e", "n", "t", " ", "S", "e", "s", "s", "i", "o", "n">>

title_prompt(m, input) ==
    CASE m = "business" -> business_title_prompt(input)
      [] m = "social"   -> social_title_prompt(input)
      [] m = "agents"   -> agents_title_prompt(input)
      [] OTHER          -> input

fallback_title(m, input) ==
    CASE m = "business" -> business_fallback_title
      [] m = "social"   -> social_fallback_title
      [] m = "agents"   -> agents_fallback_title
      [] OTHER          -> chat_fallback_title(input)

\* try: title = await generate_title(prompt) / except: title = fallback.
\* generate_title raises only from _ensure_async_initialized (missing key);
\* a failure of its completion call is caught inside generate_title.
\* gen records which of the three ways produced the title.
first_title(m, input, api) ==
    IF ~OPENAI_API_KEY
    THEN [title |-> fallback_title(m, input), gen |-> "raise"]
    ELSE [title |-> generate_title(title_prompt(m, input), api),
          gen   |-> IF Len(title_prompt(m, input)) > ShortTitleLen /\ api = "fail"
                    THEN "api_fail" ELSE "ok"]

\* What the request carries besides the identifiers: str(request_data) of a
\* business tool, the topic of a social tool, the user_input of an agent.
Payloads(m) ==
    CASE m = "business" -> {<<"{">> \o Rep("d", 29), <<"{">> \o Rep("d", PromptDataLen)}
      [] m = "social"   -> {<<"c", "a", "t">>, <<" ">> \o Rep("c", ShortTitleLen)}
      [] OTHER          -> {<<>>, Rep("q", ShortTitleLen)}

\* ------------------------------------------------- chat: send_message
\* A request that reached its write: what it holds across the await.
Pending(op, user_id, session_id, first, gen, input, session) ==
    [NoRequest EXCEPT !.op = op, !.user_id = user_id, !.session_id = session_id,
                      !.pc = "update", !.first = first, !.title_gen = gen,
                      !.input = input, !.session = session]

\* The response to a request whose title step ran.
Failed(op, user_id, session_id, status, cause, first, gen) ==
    [Respond(op, user_id, session_id, status, cause)
        EXCEPT !.first = first, !.title_gen = gen]

\* send_message without the try/except around generate_title: a failure
\* of title generation ends the request.
chat_turn_title_raises(rid, user_id, session_id, message, audio, image, api, completion) ==
    LET session == find_one(collection, session_id, user_id)
        text    == user_message_text(message, audio)
        is_first_message == Len(session.entries) = 0
        titled  == IF is_first_message /\ text # <<>>
                   THEN first_title("chat", text, api)
                   ELSE [title |-> session.title, gen |-> "none"]
    IN  IF session = NoDoc
        THEN Respond("send_message", user_id, session_id, 404, "lookup")
        ELSE IF transcribe_fails(audio)
        THEN Respond("send_message", user_id, session_id, 400, "audio")
        ELSE IF text = <<>> /\ ~image
        THEN Respond("send_message", user_id, session_id, 400, "input")
        ELSE IF titled.gen \in {"raise", "api_fail"}
        THEN Failed("send_message", user_id, session_id, 500, "title",
                    is_first_message, titled.gen)
        ELSE IF completion = "fail" \/ ~OPENAI_API_KEY
        THEN Failed("send_message", user_id, session_id, 500, "completion",
                    is_first_message, titled.gen)
        ELSE Pending("send_message", user_id, session_id, is_first_message,
                     titled.gen, text,
                     Session(session.user_id, titled.title,
                             session.entries \o <<Entry(rid, "user"),
                                                  Entry(rid, "assistant")>>))

\* send_message without the check for an empty request.
chat_turn_accepts_empty(rid, user_id, session_id, message, audio, image, api, completion) ==
    LET session == find_one(collection, session_id, user_id)
        text    == user_message_text(message, audio)
        is_first_message == Len(session.entries) = 0
        titled  == IF is_first_message /\ text # <<>>
                   THEN first_title("chat", text, api)
                   ELSE [title |-> session.title, gen |-> "none"]
    IN  IF session = NoDoc
        THEN Respond("send_message", user_id, session_id, 404, "lookup")
        ELSE IF transcribe_fails(audio)
        THEN Respond("send_message", user_id, session_id, 400, "audio")
        ELSE IF completion = "fail" \/ ~OPENAI_API_KEY
        THEN Failed("send_message", user_id, session_id, 500, "completion",
                    is_first_message, titled.gen)
        ELSE Pending("send_message", user_id, session_id, is_first_message,
                     titled.gen, text,
                     Session(session.user_id, titled.title,
                             session.entries \o <<Entry(rid, "user"),
                                                  Entry(rid, "assistant")>>))

\* send_message of chat_routes from find_one up to the await of update_one:
\* the outcome is a response (an HTTPException) or the request pending on
\* its write with the local ChatSession.
\* The handler saving the user message although the completion failed.
chat_turn_keeps_unanswered(rid, user_id, session_id, message, audio, image, api, completion) ==
    LET session == find_one(collection, session_id, user_id)
        text    == user_message_text(message, audio)
        is_first_message == Len(session.entries) = 0
        titled  == IF is_first_message /\ text # <<>>
                   THEN first_title("chat", text, api)
                   ELSE [title |-> session.title, gen |-> "none"]
        failed  == completion = "fail" \/ ~OPENAI_API_KEY
    IN  IF session = NoDoc
        THEN Respond("send_message", user_id, session_id, 404, "lookup")
        ELSE IF transcribe_fails(audio)
        THEN Respond("send_message", user_id, session_id, 400, "audio")
        ELSE IF text = <<>> /\ ~image
        THEN Respond("send_message", user_id, session_id, 400, "input")
        ELSE Pending("send_message", user_id, session_id, is_first_message,
                     titled.gen, text,
                     Session(session.user_id, titled.title,
                             session.entries
                                \o <<Entry(rid, "user")>>
                                \o (IF failed THEN <<>>
                                    ELSE <<Entry(rid, "assistant")>>)))

chat_turn(rid, user_id, session_id, message, audio, image, api, completion) ==
    LET session == find_one(collection, session_id, user_id)
        text    == user_message_text(message, audio)
        is_first_message == Len(session.entries) = 0
        titled  == IF is_first_message /\ text # <<>>
                   THEN first_title("chat", text, api)
                   ELSE [title |-> session.title, gen |-> "none"]
    IN  IF session = NoDoc
        THEN Respond("send_message", user_id, session_id, 404, "lookup")
        ELSE IF transcribe_fails(audio)
        THEN Respond("send_message", user_id, session_id, 400, "audio")
        ELSE IF text = <<>> /\ ~image
        THEN Respond("send_message", user_id, session_id, 400, "input")
        ELSE IF completion = "fail" \/ ~OPENAI_API_KEY
        THEN Failed("send_message", user_id, session_id, 500, "completion",
                    is_first_message, titled.gen)
        ELSE Pending("send_message", user_id, session_id, is_first_message,
                     titled.gen, text,
                     Session(session.user_id, titled.title,
                             session.entries \o <<Entry(rid, "user"),
                                                  Entry(rid, "assistant")>>))

send_message(user_id, session_id, message, audio, image, api, completion) ==
    /\ module = "chat"
    /\ Len(reqs) < MaxRequests
    /\ LET out == chat_turn(Len(reqs) + 1, user_id, session_id, message, audio,
                            image, api, completion)
       IN  IF out.pc = "update"
           THEN reqs' = Append(reqs, out) /\ UNCHANGED response
           ELSE response' = out /\ UNCHANGED reqs
    /\ UNCHANGED <<group_chat_sessions, module, OPENAI_API_KEY, collection, TEMP_SESSIONS, groups, issued>>

\* ------------------------- business / social / agents: save_*_interaction
\* A tool route: the content service call, then save_*_interaction from
\* find_one up to the await of update_one.
tool_turn(rid, user_id, session_id, input, ai, api) ==
    LET session == find_one(collection, session_id, user_id)
        is_first_interaction == Len(session.entries) = 0
        titled  == IF is_first_interaction
                   THEN first_title(module, input, api)
                   ELSE [title |-> session.title, gen |-> "none"]
    IN  IF ~OPENAI_API_KEY
        THEN Respond("save_interaction", user_id, session_id,
                     IF module = "agents" THEN 400 ELSE 500, "ai_service")
        ELSE IF ai = "fail"
        THEN Respond("save_interaction", user_id, session_id, 500, "ai_service")
        ELSE IF session = NoDoc
        THEN Respond("save_interaction", user_id, session_id, 404, "lookup")
        ELSE Pending("save_interaction", user_id, session_id, is_first_interaction,
                     titled.gen, input,
                     Session(session.user_id, titled.title,
                             Append(session.entries, Entry(rid, "interaction"))))

save_interaction(user_id, session_id, input, ai, api) ==
    /\ module \in SessionModules \ {"chat"}
    /\ Len(reqs) < MaxRequests
    /\ LET out == tool_turn(Len(reqs) + 1, user_id, session_id, input, ai, api)
       IN  IF out.pc = "update"
           THEN reqs' = Append(reqs, out) /\ UNCHANGED response
           ELSE response' = out /\ UNCHANGED reqs
    /\ UNCHANGED <<group_chat_sessions, module, OPENAI_API_KEY, collection, TEMP_SESSIONS, groups, issued>>

\* The write that ends send_message and save_*_interaction:
\* update_one(..., {"$set": session.model_dump()}, upsert=True), then the
\* success response.
Finish(r, status) ==
    [r EXCEPT !.pc = "done", !.status = status, !.session = NoDoc]

\* What is left of a request once it has returned; its place in reqs stays
\* taken because its entries are named after it.
Returned(r, status) == [NoRequest EXCEPT !.op = r.op, !.group_id = r.group_id]

\* The requests of one kind that passed their first step so far.
Count(op) == Cardinality({i \in 1..Len(reqs) : reqs[i].op = op})

update_session(i) ==
    /\ module \in SessionModules
    /\ reqs[i].pc = "update"
    /\ collection' = update_one_upsert(collection, reqs[i].session_id, reqs[i].session)
    /\ reqs' = [reqs EXCEPT ![i] = Returned(@, 200)]
    /\ response' = Finish(reqs[i], 200)
    /\ UNCHANGED <<group_chat_sessions, module, OPENAI_API_KEY, TEMP_SESSIONS, groups, issued>>

\* --------------------------- global-language / student: $push sessions
\* The voice interaction carrying on without audio when text-to-speech throws.
process_turn_tts_ignored(rid, user_id, session_id, kind, audio, completion, tts) ==
    LET session == find_by_id(collection, session_id)
        op == "process_" \o kind
    IN  IF session = NoDoc
        THEN Respond(op, user_id, session_id, 404, "lookup")
        ELSE IF kind = "voice" /\ (audio = "fail" \/ ~OPENAI_API_KEY)
        THEN Respond(op, user_id, session_id, 500, "audio")
        ELSE IF (kind # "voice" \/ strip(transcription(audio)) # <<>>)
                /\ (completion = "fail" \/ ~OPENAI_API_KEY)
        THEN Respond(op, user_id, session_id, 500, "completion")
        ELSE Pending(op, user_id, session_id, FALSE, "none", <<>>, NoDoc)

\* process_chat_interaction, process_voice_interaction(_file) and the six
\* student tools up to the await of _add_interaction: _get_session looks
\* the session up by session_id alone, then the external calls run.
\* kind is "chat", "voice" or "tool"; audio, completion and tts are what
\* the speech-to-text, completion and text-to-speech calls do.
process_turn(rid, user_id, session_id, kind, audio, completion, tts) ==
    LET session == find_by_id(collection, session_id)
        op == "process_" \o kind
    IN  IF session = NoDoc
        THEN Respond(op, user_id, session_id, 404, "lookup")
        ELSE IF kind = "voice" /\ (audio = "fail" \/ ~OPENAI_API_KEY)
        THEN Respond(op, user_id, session_id, 500, "audio")
        ELSE IF (kind # "voice" \/ strip(transcription(audio)) # <<>>)
                /\ (completion = "fail" \/ ~OPENAI_API_KEY)
        THEN Respond(op, user_id, session_id, 500, "completion")
        ELSE IF kind = "voice" /\ tts = "fail"
        THEN Respond(op, user_id, session_id, 500, "tts")
        ELSE Pending(op, user_id, session_id, FALSE, "none", <<>>, NoDoc)

\* The voice interaction saved before the text-to-speech call.
process_interaction_saves_first(user_id, session_id, kind, audio, completion, tts) ==
    /\ \/ module = "global_language" /\ kind \in {"chat", "voice"}
       \/ module = "student" /\ kind = "tool"
    /\ Len(reqs) < MaxRequests
    /\ LET out == process_turn(Len(reqs) + 1, user_id, session_id, kind, audio,
                               completion, tts)
       IN  /\ IF out.pc = "update"
              THEN reqs' = Append(reqs, out) /\ UNCHANGED response
              ELSE response' = out /\ UNCHANGED reqs
           /\ collection' = IF out.cause = "tts"
                            THEN update_one_push(collection, session_id,
                                     Entry(Len(reqs) + 1, "interaction"))
                            ELSE collection
    /\ UNCHANGED <<group_chat_sessions, module, OPENAI_API_KEY, TEMP_SESSIONS, groups, issued>>

process_interaction(user_id, session_id, kind, audio, completion, tts) ==
    /\ \/ module = "global_language" /\ kind \in {"chat", "voice"}
       \/ module = "student" /\ kind = "tool"
    /\ Len(reqs) < MaxRequests
    /\ LET out == process_turn(Len(reqs) + 1, user_id, session_id, kind, audio,
                               completion, tts)
       IN  IF out.pc = "update"
           THEN reqs' = Append(reqs, out) /\ UNCHANGED response
           ELSE response' = out /\ UNCHANGED reqs
    /\ UNCHANGED <<group_chat_sessions, module, OPENAI_API_KEY, collection, TEMP_SESSIONS, groups, issued>>

\* _add_interaction: update_one({"session_id": ..}, {"$push": ..}), then
\* the success response.
add_interaction(i) ==
    /\ module \in PushModules
    /\ reqs[i].pc = "update"
    /\ collection' = update_one_push(collection, reqs[i].session_id,
                                     Entry(i, "interaction"))
    /\ reqs' = [reqs EXCEPT ![i] = Returned(@, 200)]
    /\ response' = Finish(reqs[i], 200)
    /\ UNCHANGED <<group_chat_sessions, module, OPENAI_API_KEY, TEMP_SESSIONS, groups, issued>>

\* get_history of the global-language and student services: the request
\* carries no user id; user_id is only who sent it.
get_history(user_id, session_id) ==
    /\ module \in PushModules
    /\ LET session == find_by_id(collection, session_id)
       IN  response' = IF session = NoDoc
                       THEN Respond("history", user_id, session_id, 404, "lookup")
                       ELSE [Respond("history", user_id, session_id, 200, "")
                                EXCEPT !.session = session]
    /\ UNCHANGED <<group_chat_sessions, module, OPENAI_API_KEY, collection, TEMP_SESSIONS, groups,
                   issued, reqs>>

\* delete_session of the global-language and student services:
\* delete_one({"session_id": session_id}); user_id is only who sent it.
push_delete_session(user_id, session_id) ==
    /\ module \in PushModules
    /\ LET result == delete_one(collection, session_id,
                                find_by_id(collection, session_id) # NoDoc)
       IN  /\ collection' = result.coll
           /\ response' = [(IF result.deleted_count = 0
                            THEN Respond("delete", user_id, session_id, 404, "lookup")
                            ELSE Respond("delete", user_id, session_id, 200, ""))
                              EXCEPT !.repeat = Repeats(user_id, session_id)]
    /\ UNCHANGED <<group_chat_sessions, module, OPENAI_API_KEY, TEMP_SESSIONS, groups, issued, reqs>>

\* ----------------------------------------------------------- temp chat
\* create_temp_session: TEMP_SESSIONS[session_id] = ChatSession(...)
create_temp_session(user_id) ==
    /\ module = "temp_chat"
    /\ issued < MaxSessions
    /\ issued' = issued + 1
    /\ TEMP_SESSIONS' = [TEMP_SESSIONS EXCEPT
                           ![issued + 1] = Session(user_id, default_title(module), <<>>)]
    /\ response' = Respond("create_session", user_id, issued + 1, 201, "")
    /\ UNCHANGED <<group_chat_sessions, module, OPENAI_API_KEY, collection, groups, reqs>>

\* The title assignment and the append of the user message, both on the
\* ChatSession object shared through TEMP_SESSIONS.
temp_user_message(session, rid, first, text, api) ==
    Session(session.user_id,
            IF first /\ text # <<>> THEN first_title("temp_chat", text, api).title
            ELSE session.title,
            Append(session.entries, Entry(rid, "user")))

temp_title_gen(first, text, api) ==
    IF first /\ text # <<>> THEN first_title("temp_chat", text, api).gen ELSE "none"

\* The handler is suspended between its checks and the append of the user
\* message iff it awaits a file read, a transcription or the completion
\* call of generate_title.
temp_suspends(first, text, audio, image) ==
    \/ audio # "none"
    \/ image
    \/ first /\ text # <<>> /\ OPENAI_API_KEY /\ Len(text) > ShortTitleLen

\* send_temp_message up to its first suspension.  Without a suspension the
\* title and the user message are stored in the same step, and with no
\* API key chat_completion raises before it awaits anything.
send_temp_message(user_id, session_id, message, audio, image) ==
    /\ module = "temp_chat"
    /\ Len(reqs) < MaxRequests
    /\ LET session == TEMP_SESSIONS[session_id]
           text    == user_message_text(message, audio)
           first   == Len(session.entries) = 0
           rid     == Len(reqs) + 1
           req     == [Pending("send_temp_message", user_id, session_id, first,
                               "none", text, NoDoc) EXCEPT !.pc = "title"]
           titled  == [req EXCEPT !.pc = "reply",
                                  !.title_gen = temp_title_gen(first, text, "fail")]
           error(status, cause) ==
               /\ response' = Respond("send_temp_message", user_id, session_id,
                                      status, cause)
               /\ UNCHANGED <<reqs, TEMP_SESSIONS>>
       IN  IF session = NoDoc THEN error(404, "lookup")
           ELSE IF session.user_id # user_id THEN error(403, "owner")
           ELSE IF transcribe_fails(audio) THEN error(400, "audio")
           ELSE IF text = <<>> /\ ~image THEN error(400, "input")
           ELSE IF temp_suspends(first, text, audio, image)
           THEN /\ reqs' = Append(reqs, req)
                /\ UNCHANGED <<response, TEMP_SESSIONS>>
           ELSE /\ TEMP_SESSIONS' = [TEMP_SESSIONS EXCEPT ![session_id] =
                                       temp_user_message(@, rid, first, text, "fail")]
                /\ IF OPENAI_API_KEY
                   THEN reqs' = Append(reqs, titled) /\ UNCHANGED response
                   ELSE /\ reqs' = Append(reqs, Returned(titled, 500))
                        /\ response' = [Finish(titled, 500) EXCEPT !.cause = "completion"]
    /\ UNCHANGED <<group_chat_sessions, module, OPENAI_API_KEY, collection, groups, issued>>

\* send_temp_message resumed: title generation returns, the title is
\* assigned and the user message appended.
temp_store_user(i, api) ==
    /\ module = "temp_chat"
    /\ reqs[i].pc = "title"
    /\ LET r == reqs[i]
           titled == [r EXCEPT !.pc = "reply",
                               !.title_gen = temp_title_gen(r.first, r.input, api)]
       IN  /\ TEMP_SESSIONS' = [TEMP_SESSIONS EXCEPT ![r.session_id] =
                                   temp_user_message(@, i, r.first, r.input, api)]
           /\ IF OPENAI_API_KEY
              THEN reqs' = [reqs EXCEPT ![i] = titled] /\ UNCHANGED response
              ELSE /\ reqs' = [reqs EXCEPT ![i] = Returned(titled, 500)]
                   /\ response' = [Finish(titled, 500) EXCEPT !.cause = "completion"]
    /\ UNCHANGED <<group_chat_sessions, module, OPENAI_API_KEY, collection, groups, issued>>

\* send_temp_message resumed, putting the reply in front of the list.
temp_store_reply_front(i, completion) ==
    /\ module = "temp_chat"
    /\ reqs[i].pc = "reply"
    /\ LET r == reqs[i]
       IN  IF completion = "fail"
           THEN /\ reqs' = [reqs EXCEPT ![i] = Returned(r, 500)]
                /\ response' = [Finish(r, 500) EXCEPT !.cause = "completion"]
                /\ UNCHANGED TEMP_SESSIONS
           ELSE /\ TEMP_SESSIONS' = [TEMP_SESSIONS EXCEPT ![r.session_id].entries =
                                       <<Entry(i, "assistant")>> \o @]
                /\ reqs' = [reqs EXCEPT ![i] = Returned(r, 200)]
                /\ response' = Finish(r, 200)
    /\ UNCHANGED <<group_chat_sessions, module, OPENAI_API_KEY, collection, groups, issued>>

\* send_temp_message resumed: chat_completion returns or throws.
temp_store_reply(i, completion) ==
    /\ module = "temp_chat"
    /\ reqs[i].pc = "reply"
    /\ LET r == reqs[i]
       IN  IF completion = "fail"
           THEN /\ reqs' = [reqs EXCEPT ![i] = Returned(r, 500)]
                /\ response' = [Finish(r, 500) EXCEPT !.cause = "completion"]
                /\ UNCHANGED TEMP_SESSIONS
           ELSE /\ TEMP_SESSIONS' = [TEMP_SESSIONS EXCEPT ![r.session_id].entries =
                                       Append(@, Entry(i, "assistant"))]
                /\ reqs' = [reqs EXCEPT ![i] = Returned(r, 200)]
                /\ response' = Finish(r, 200)
    /\ UNCHANGED <<group_chat_sessions, module, OPENAI_API_KEY, collection, groups, issued>>

\* ---------------------------------------------------------- group chat
Group(creator_id, members, messages) ==
    [creator_id |-> creator_id, members |-> members, messages |-> messages]

\* content is "user" for what a member wrote, "generated" for the model's
\* answer and "fallback" for the fixed apology.
GroupMessage(rid, user_id, is_ai, content) ==
    [id |-> rid, user_id |-> user_id, is_ai |-> is_ai, content |-> content]

InSeq(x, seq) == \E k \in 1..Len(seq) : seq[k] = x

\* create_session handing out one fixed identifier.
group_create_session_reuses(user_id) ==
    /\ module = "group_chat"
    /\ group_chat_sessions' = [group_chat_sessions EXCEPT ![1] = [user_id |-> user_id]]
    /\ response' = Respond("create_session", user_id, 1, 201, "")
    /\ UNCHANGED <<module, OPENAI_API_KEY, collection, TEMP_SESSIONS, groups,
                   issued, reqs>>

\* GroupChatService.create_session: group sessions are never deleted, so
\* the identifiers in use are the ones issued.
group_create_session(user_id) ==
    /\ module = "group_chat"
    /\ \E s \in DOMAIN group_chat_sessions :
        /\ group_chat_sessions[s] = NoDoc
        /\ \A t \in 1..(s - 1) : group_chat_sessions[t] # NoDoc
        /\ group_chat_sessions' = [group_chat_sessions EXCEPT ![s] = [user_id |-> user_id]]
        /\ response' = Respond("create_session", user_id, s, 201, "")
    /\ UNCHANGED <<module, OPENAI_API_KEY, collection, TEMP_SESSIONS, groups,
                   issued, reqs>>

\* _validate_session: find_one on (session_id, user_id), 401 when absent.
\* The validation looking the session up by its id alone.
validate_session_any_user(session_id, user_id) ==
    group_chat_sessions[session_id] # NoDoc

validate_session(session_id, user_id) ==
    find_one(group_chat_sessions, session_id, user_id) # NoDoc

GroupRespond(op, user_id, session_id, group_id, status, cause) ==
    [Respond(op, user_id, session_id, status, cause) EXCEPT !.group_id = group_id]

GroupPending(op, user_id, session_id, group_id, pc, group) ==
    [GroupRespond(op, user_id, session_id, group_id, 0, "")
        EXCEPT !.pc = pc, !.session = group]

\* create_group: insert_one of a group whose only member is its creator.
create_group(user_id, session_id) ==
    /\ module = "group_chat"
    /\ IF ~validate_session(session_id, user_id)
       THEN /\ response' = GroupRespond("create_group", user_id, session_id, 0,
                                        401, "session")
            /\ UNCHANGED <<groups, issued>>
       ELSE /\ issued < MaxGroups
            /\ issued' = issued + 1
            /\ groups' = [groups EXCEPT ![issued + 1] = Group(user_id, <<user_id>>, <<>>)]
            /\ response' = GroupRespond("create_group", user_id, session_id,
                                        issued + 1, 201, "")
    /\ UNCHANGED <<module, OPENAI_API_KEY, collection, TEMP_SESSIONS,
                   group_chat_sessions, reqs>>

\* join_group up to the await of update_one: a member gets the group back
\* at once, anyone else carries the member list it read plus itself.
\* join_group appending the user without looking at the member list.
join_group_unchecked(user_id, session_id, group_id) ==
    /\ module = "group_chat"
    /\ LET group == groups[group_id]
           answer(status, cause) ==
               /\ response' = GroupRespond("join_group", user_id, session_id,
                                           group_id, status, cause)
               /\ UNCHANGED reqs
       IN  IF ~validate_session(session_id, user_id) THEN answer(401, "session")
           ELSE IF group = NoDoc THEN answer(404, "lookup")
           ELSE /\ reqs' = Append(reqs,
                      GroupPending("join_group", user_id, session_id, group_id, "update",
                                   [group EXCEPT !.members = Append(@, user_id)]))
                /\ UNCHANGED response
    /\ UNCHANGED <<module, OPENAI_API_KEY, collection, TEMP_SESSIONS, groups,
                   group_chat_sessions, issued>>

join_group(user_id, session_id, group_id) ==
    /\ module = "group_chat"
    /\ LET group == groups[group_id]
           answer(status, cause) ==
               /\ response' = GroupRespond("join_group", user_id, session_id,
                                           group_id, status, cause)
               /\ UNCHANGED reqs
       IN  IF ~validate_session(session_id, user_id) THEN answer(401, "session")
           ELSE IF group = NoDoc THEN answer(404, "lookup")
           ELSE IF InSeq(user_id, group.members) THEN answer(200, "")
           ELSE /\ reqs' = Append(reqs,
                      GroupPending("join_group", user_id, session_id, group_id, "update",
                                   [group EXCEPT !.members = Append(@, user_id)]))
                /\ UNCHANGED response
    /\ UNCHANGED <<module, OPENAI_API_KEY, collection, TEMP_SESSIONS, groups,
                   group_chat_sessions, issued>>

\* join_group resumed: update_one({"group_id": ..}, {"$set": {"members": ..}})
join_group_update(i) ==
    /\ module = "group_chat"
    /\ reqs[i].op = "join_group" /\ reqs[i].pc = "update"
    /\ LET r == reqs[i]
       IN  /\ groups' = IF groups[r.group_id] = NoDoc THEN groups
                        ELSE [groups EXCEPT ![r.group_id].members = r.session.members]
           /\ reqs' = [reqs EXCEPT ![i] = Returned(r, 200)]
           /\ response' = Finish(r, 200)
    /\ UNCHANGED <<module, OPENAI_API_KEY, collection, TEMP_SESSIONS,
                   group_chat_sessions, issued>>

\* A write that puts the message in front of the stored list.
push_message_front(grps, group_id, message) ==
    IF grps[group_id] = NoDoc THEN grps
    ELSE [grps EXCEPT ![group_id].messages = <<message>> \o @]

\* update_one({"group_id": group_id}, {"$push": {"messages": message}})
push_message(grps, group_id, message) ==
    IF grps[group_id] = NoDoc THEN grps
    ELSE [grps EXCEPT ![group_id].messages = Append(@, message)]

\* send_message of the group service up to the await of chat_completion:
\* the session, group and member checks and the $push of the user message.
\* (The checks and the $push are one step: between them a group can only
\* gain members or be deleted, and the $push stores nothing in a deleted
\* group, which is the state a later delete leaves as well.)
group_send_message(user_id, session_id, group_id) ==
    /\ module = "group_chat"
    /\ Count("send_message") < MaxGroupSends
    /\ LET group == groups[group_id]
           answer(status, cause) ==
               /\ response' = GroupRespond("send_message", user_id, session_id,
                                           group_id, status, cause)
               /\ UNCHANGED <<reqs, groups>>
       IN  IF ~validate_session(session_id, user_id) THEN answer(401, "session")
           ELSE IF group = NoDoc THEN answer(404, "lookup")
           ELSE IF ~InSeq(user_id, group.members) THEN answer(403, "member")
           ELSE /\ groups' = push_message(groups, group_id,
                                 GroupMessage(Len(reqs) + 1, user_id, FALSE, "user"))
                /\ reqs' = Append(reqs,
                      GroupPending("send_message", user_id, session_id, group_id,
                                   "push_reply", NoDoc))
                /\ UNCHANGED response
    /\ UNCHANGED <<module, OPENAI_API_KEY, collection, TEMP_SESSIONS,
                   group_chat_sessions, issued>>

\* send_message resumed, returning from the except branch without the $push.
group_push_reply_unsaved(i, completion) ==
    /\ module = "group_chat"
    /\ reqs[i].pc = "push_reply"
    /\ LET r == reqs[i]
           failed == completion = "fail" \/ ~OPENAI_API_KEY
           content == IF failed THEN "fallback" ELSE "generated"
       IN  /\ groups' = IF failed THEN groups
                        ELSE push_message(groups, r.group_id,
                                          GroupMessage(i, "AI", TRUE, content))
           /\ reqs' = [reqs EXCEPT ![i] = Returned(r, 200)]
           /\ response' = [Finish(r, 200) EXCEPT !.cause = content]
    /\ UNCHANGED <<module, OPENAI_API_KEY, collection, TEMP_SESSIONS,
                   group_chat_sessions, issued>>

\* send_message resumed without the except branch: a failed completion
\* ends the request with a server error and no reply.
group_push_reply_raises(i, completion) ==
    /\ module = "group_chat"
    /\ reqs[i].pc = "push_reply"
    /\ LET r == reqs[i]
           failed == completion = "fail" \/ ~OPENAI_API_KEY
       IN  /\ groups' = IF failed THEN groups
                        ELSE push_message(groups, r.group_id,
                                          GroupMessage(i, "AI", TRUE, "generated"))
           /\ reqs' = [reqs EXCEPT ![i] = Returned(r, IF failed THEN 500 ELSE 200)]
           /\ response' = [Finish(r, IF failed THEN 500 ELSE 200)
                              EXCEPT !.cause = IF failed THEN "completion"
                                               ELSE "generated"]
    /\ UNCHANGED <<module, OPENAI_API_KEY, collection, TEMP_SESSIONS,
                   group_chat_sessions, issued>>

\* send_message resumed: chat_completion returns or throws (then the fixed
\* apology is the content), and the $push of the AI message.
group_push_reply(i, completion) ==
    /\ module = "group_chat"
    /\ reqs[i].pc = "push_reply"
    /\ LET r == reqs[i]
           content == IF completion = "fail" \/ ~OPENAI_API_KEY
                      THEN "fallback" ELSE "generated"
       IN  /\ groups' = push_message(groups, r.group_id,
                                     GroupMessage(i, "AI", TRUE, content))
           /\ reqs' = [reqs EXCEPT ![i] = Returned(r, 200)]
           /\ response' = [Finish(r, 200) EXCEPT !.cause = content]
    /\ UNCHANGED <<module, OPENAI_API_KEY, collection, TEMP_SESSIONS,
                   group_chat_sessions, issued>>

\* get_group_history: find_one by group_id.
get_group_history(group_id) ==
    /\ module = "group_chat"
    /\ response' = IF groups[group_id] = NoDoc
                   THEN GroupRespond("history", "", 0, group_id, 404, "lookup")
                   ELSE [GroupRespond("history", "", 0, group_id, 200, "")
                            EXCEPT !.session = groups[group_id]]
    /\ UNCHANGED <<module, OPENAI_API_KEY, collection, TEMP_SESSIONS, groups,
                   group_chat_sessions, issued, reqs>>

\* delete_group checking membership instead of the creator.
delete_group_by_member(group_id, user_id) ==
    /\ module = "group_chat"
    /\ LET group_data == groups[group_id]
           answer(status, cause) ==
               response' = GroupRespond("delete_group", user_id, 0, group_id,
                                        status, cause)
       IN  IF group_data = NoDoc THEN answer(404, "lookup") /\ UNCHANGED groups
           ELSE IF ~InSeq(user_id, group_data.members)
           THEN answer(403, "creator") /\ UNCHANGED groups
           ELSE answer(200, "") /\ groups' = [groups EXCEPT ![group_id] = NoDoc]
    /\ UNCHANGED <<module, OPENAI_API_KEY, collection, TEMP_SESSIONS,
                   group_chat_sessions, issued, reqs>>

\* delete_group: find_one, the creator check and delete_one.  (One step:
\* creator_id never changes and delete_one of a deleted group does nothing.)
delete_group(group_id, user_id) ==
    /\ module = "group_chat"
    /\ LET group_data == groups[group_id]
           answer(status, cause) ==
               response' = GroupRespond("delete_group", user_id, 0, group_id,
                                        status, cause)
       IN  IF group_data = NoDoc THEN answer(404, "lookup") /\ UNCHANGED groups
           ELSE IF group_data.creator_id # user_id
           THEN answer(403, "creator") /\ UNCHANGED groups
           ELSE answer(200, "") /\ groups' = [groups EXCEPT ![group_id] = NoDoc]
    /\ UNCHANGED <<module, OPENAI_API_KEY, collection, TEMP_SESSIONS,
                   group_chat_sessions, issued, reqs>>

\* ------------------------------------------------------- process restart
\* A handler the process was running when it stopped never resumes.
Aborted(r) == [Returned(r, 0) EXCEPT !.pc = "aborted"]

\* A restart after which the temporary sessions are still there.
restart_keeps_sessions ==
    /\ reqs' = [i \in 1..Len(reqs) |->
                  IF reqs[i].pc = "done" THEN reqs[i] ELSE Aborted(reqs[i])]
    /\ response' = Respond("restart", "", 0, 0, "")
    /\ UNCHANGED <<module, OPENAI_API_KEY, collection, group_chat_sessions,
                   groups, issued, TEMP_SESSIONS>>

\* The process stops and starts again: the module-level TEMP_SESSIONS = {}
\* runs anew and the handlers under way are gone; what MongoDB stores stays.
restart ==
    /\ TEMP_SESSIONS' = [s \in SessionIds |-> NoDoc]
    /\ reqs' = [i \in 1..Len(reqs) |->
                  IF reqs[i].pc = "done" THEN reqs[i] ELSE Aborted(reqs[i])]
    /\ response' = Respond("restart", "", 0, 0, "")
    /\ UNCHANGED <<module, OPENAI_API_KEY, collection, group_chat_sessions,
                   groups, issued>>

\* ---------------------------------------------------------- specification
Next ==
    \/ \E u \in Users : create_session(u)
    \/ \E u \in Users, s \in SessionIds : get_session_history(u, s)
    \/ \E u \in Users, s \in SessionIds : delete_session(u, s)
    \/ \E u \in Users, s \in SessionIds, m \in Messages, a \in AudioInputs,
          img \in BOOLEAN, api \in TitleApi, c \in {"ok", "fail"} :
            send_message(u, s, m, a, img, api, c)
    \/ \E u \in Users, s \in SessionIds, d \in Payloads(module),
          ai \in {"ok", "fail"}, api \in TitleApi :
            save_interaction(u, s, d, ai, api)
    \/ \E i \in 1..Len(reqs) : update_session(i)
    \/ \E u \in Users, s \in SessionIds, k \in {"chat", "voice", "tool"},
          a \in {"fail", "silent", "speech"}, c \in {"ok", "fail"},
          t \in {"ok", "fail"} :
            process_interaction(u, s, k, a, c, t)
    \/ \E i \in 1..Len(reqs) : add_interaction(i)
    \/ \E u \in Users, s \in SessionIds : get_history(u, s)
    \/ \E u \in Users, s \in SessionIds : push_delete_session(u, s)
    \/ \E u \in Users : create_temp_session(u)
    \/ \E u \in Users, s \in SessionIds, m \in Messages, a \in AudioInputs,
          img \in BOOLEAN : send_temp_message(u, s, m, a, img)
    \/ \E i \in 1..Len(reqs), api \in TitleApi : temp_store_user(i, api)
    \/ \E i \in 1..Len(reqs), c \in {"ok", "fail"} : temp_store_reply(i, c)
    \/ \E u \in Users : group_create_session(u)
    \/ \E u \in Users, s \in GroupSessionIds : create_group(u, s)
    \/ \E u \in Users, s \in GroupSessionIds, g \in GroupIds :
            Count("join_group") < MaxJoins /\ join_group(u, s, g)
    \/ \E i \in 1..Len(reqs) : join_group_update(i)
    \/ \E u \in Users, s \in GroupSessionIds, g \in GroupIds :
            group_send_message(u, s, g)
    \/ \E i \in 1..Len(reqs), c \in {"ok", "fail"} : group_push_reply(i, c)
    \/ \E g \in GroupIds : get_group_history(g)
    \/ \E g \in GroupIds, u \in Users : delete_group(g, u)
    \/ restart

Spec == Init /\ [][Next]_vars

\* The group chat service with three users, a session for each and two
\* join_group requests in flight, and no send_message.
InitJoin ==
    /\ module = "group_chat"
    /\ OPENAI_API_KEY \in BOOLEAN
    /\ collection = [s \in SessionIds |-> NoDoc]
    /\ TEMP_SESSIONS = [s \in SessionIds |-> NoDoc]
    /\ group_chat_sessions = [s \in 1..MaxJoinSessions |-> NoDoc]
    /\ groups = [g \in GroupIds |-> NoDoc]
    /\ issued = 0
    /\ reqs = <<>>
    /\ response = NoRequest

NextJoin ==
    \/ \E u \in JoinUsers : group_create_session(u)
    \/ \E u \in JoinUsers, s \in 1..MaxJoinSessions : create_group(u, s)
    \/ \E u \in JoinUsers, s \in 1..MaxJoinSessions, g \in GroupIds :
            Count("join_group") < MaxJoinRequests /\ join_group(u, s, g)
    \/ \E i \in 1..Len(reqs) : join_group_update(i)
    \/ \E g \in GroupIds : get_group_history(g)
    \/ \E g \in GroupIds, u \in JoinUsers : delete_group(g, u)

SpecJoin == InitJoin /\ [][NextJoin]_vars

\* get_suggestions of the agents service after generate_completion has
\* returned: the completion text (held in the field `input') is parsed and
\* the list is the response's suggestions.
get_suggestions ==
    /\ module = "agents"
    /\ response.op = "none"
    /\ response' = [response EXCEPT
                        !.op = "get_suggestions",
                        !.status = 200,
                        !.session = [suggestions |-> parse_suggestions(response.input)]]
    /\ UNCHANGED <<module, OPENAI_API_KEY, collection, TEMP_SESSIONS,
                   group_chat_sessions, groups, issued, reqs>>

\* The agents service about to parse any of the completion texts.
InitParse ==
    /\ module = "agents"
    /\ OPENAI_API_KEY = TRUE
    /\ collection = [s \in SessionIds |-> NoDoc]
    /\ TEMP_SESSIONS = [s \in SessionIds |-> NoDoc]
    /\ group_chat_sessions = [s \in GroupSessionIds |-> NoDoc]
    /\ groups = [g \in GroupIds |-> NoDoc]
    /\ issued = 0
    /\ reqs = <<>>
    /\ \E text \in Completions : response = [NoRequest EXCEPT !.input = text]

NextParse == get_suggestions

SpecParse == InitParse /\ [][NextParse]_vars

\* ------------------------------------------------------------- properties
Last(seq) == seq[Len(seq)]

IsPrefix(s, t) == Len(s) <= Len(t) /\ SubSeq(t, 1, Len(s)) = s

\* The pair names a stored session, judged on the stored documents alone.
Matches(user_id, session_id) ==
    /\ collection[session_id] # NoDoc
    /\ collection[session_id].user_id = user_id

\* The requests that begin with the session lookup.
LookupOps == {"send_message", "save_interaction", "history"}

\* A step in which such a request returned without reaching its write.
ReturnsEarly == reqs' = reqs /\ response'.op \in LookupOps

\* A step in which a send or save passed its lookup.
Proceeds == Len(reqs') > Len(reqs)

\* The step condition of C1_MismatchIs404.
C1_MismatchIs404_Step ==
    module \in SessionModules =>
        /\ Proceeds => Matches(Last(reqs').user_id, Last(reqs').session_id)
        /\ ReturnsEarly /\ ~Matches(response'.user_id, response'.session_id)
              => response'.status = 404 /\ collection' = collection

\* C1 as stated: in chat, business, social and agents a send, save or
\* history request whose (session_id, user_id) matches no stored session
\* never passes the lookup, is answered 404 and leaves every stored session
\* as it was.
C1_MismatchIs404 == [][C1_MismatchIs404_Step]_vars

\* The step condition of C1_MismatchNeverStores.
C1_MismatchNeverStores_Step ==
    module \in SessionModules =>
        /\ Proceeds => Matches(Last(reqs').user_id, Last(reqs').session_id)
        /\ ReturnsEarly /\ ~Matches(response'.user_id, response'.session_id)
              => /\ collection' = collection
                 /\ IF response'.cause = "ai_service"
                    THEN /\ response'.op = "save_interaction"
                         /\ response'.status \in {400, 500}
                    ELSE response'.status = 404

\* C1 amended: such a request never passes the lookup and leaves every
\* stored session as it was; it is answered 404, except that a business,
\* social or agents tool request whose content generation fails is answered
\* with that failure (500, agents 400 for a missing key) before the lookup.
C1_MismatchNeverStores == [][C1_MismatchNeverStores_Step]_vars

\* A request on another user's session was answered 404.
C1_Witness ==
    /\ module \in SessionModules
    /\ response.op \in LookupOps
    /\ response.status = 404
    /\ collection[response.session_id] # NoDoc
    /\ collection[response.session_id].user_id # response.user_id

\* The step condition of C2_NonOwnerIs404.
C2_NonOwnerIs404_Step ==
    module \in PushModules =>
        /\ Proceeds => Matches(Last(reqs').user_id, Last(reqs').session_id)
        /\ /\ reqs' = reqs
           /\ response'.op \in {"process_chat", "process_voice", "process_tool"}
           /\ collection[response'.session_id] # NoDoc
           /\ ~Matches(response'.user_id, response'.session_id)
              => response'.status = 404 /\ collection' = collection

\* C2: in the global-language and student modules a chat, voice or tool
\* request by a user who does not own the named existing session never
\* reaches the append and is answered 404.
C2_NonOwnerIs404 == [][C2_NonOwnerIs404_Step]_vars

\* The step condition of C3_EntriesStay.
C3_EntriesStay_Step ==
    \A s \in SessionIds :
          collection[s] # NoDoc /\ collection'[s] # NoDoc
              => IsPrefix(collection[s].entries, collection'[s].entries)

\* C3: an entry stored in a session stays at its position for as long as
\* the session exists, whatever requests run on the session.
C3_EntriesStay == [][C3_EntriesStay_Step]_vars

\* The step condition of C4_TitleFixed.
C4_TitleFixed_Step ==
    \A s \in SessionIds :
        (collection[s] # NoDoc /\ collection'[s] # NoDoc
            /\ Len(collection[s].entries) > 0)
                => collection'[s].title = collection[s].title

\* C4: once a session holds an entry its stored title never changes.
C4_TitleFixed == [][C4_TitleFixed_Step]_vars

\* C5: a successful first send or save on a session has invoked title
\* generation, whatever its content.
C5_FirstInvokesTitle ==
    (response.op \in {"send_message", "save_interaction", "send_temp_message"}
        /\ response.status = 200 /\ response.first)
            => response.title_gen # "none"

\* The ways title generation fails: generate_title raises (no API key), or
\* its completion call throws.
TitleFailed == {"raise", "api_fail"}

\* A response to a request whose title generation failed is a success,
\* unless the completion call failed.
C6_Answered ==
    response.title_gen \in TitleFailed
        => response.status = 200 \/ response.cause = "completion"

\* The write of such a request stores its entries and its title and the
\* request is answered 200.
C6_Step ==
    \A i \in 1..Len(reqs) :
        /\ (module \in SessionModules /\ reqs[i].pc = "update"
                /\ reqs'[i].pc = "done" /\ reqs[i].title_gen \in TitleFailed)
             => /\ response'.status = 200
                /\ collection'[reqs[i].session_id] # NoDoc
                /\ collection'[reqs[i].session_id].title = reqs[i].session.title
                /\ \E k \in 1..Len(collection'[reqs[i].session_id].entries) :
                       collection'[reqs[i].session_id].entries[k].id = i
        /\ (module = "temp_chat" /\ reqs[i].pc = "reply"
                /\ reqs'[i].pc = "done" /\ reqs[i].title_gen \in TitleFailed
                /\ response'.status = 200)
             => LET entries == TEMP_SESSIONS'[reqs[i].session_id].entries
                IN  \E j, k \in 1..Len(entries) :
                       /\ j < k
                       /\ entries[j] = Entry(i, "user")
                       /\ entries[k] = Entry(i, "assistant")

\* C6: a failure of title generation during a first interaction never
\* fails the request: the interaction is appended, the session saved and
\* the caller answered 200 (chat, temp chat, business, social, agents).
C6_TitleBestEffort == []C6_Answered /\ [][C6_Step]_vars

\* A first message whose title generation failed was answered 200.
C6_Witness ==
    /\ response.op = "send_message"
    /\ response.first
    /\ response.title_gen = "api_fail"
    /\ response.status = 200
    /\ module = "chat"

\* title is a prefix of text, optionally followed by an ellipsis.
IsTruncationOf(title, text) ==
    \E n \in 0..Len(text) :
        \/ title = SubSeq(text, 1, n)
        \/ title = SubSeq(text, 1, n) \o Ellipsis

\* The first ShortTitleLen characters of text without the white space
\* around them, with an ellipsis when text is longer.
C7_Cut(text) ==
    LET n == IF Len(text) < ShortTitleLen THEN Len(text) ELSE ShortTitleLen
    IN  strip(SubSeq(text, 1, n))
            \o (IF Len(text) > ShortTitleLen THEN <<".", ".", ".">> ELSE <<>>)

C7_AsStated(m, title, input) == IsTruncationOf(title, input)

C7_AsAmended(m, title, input) == title = C7_Cut(title_prompt(m, input))

\* Every step that stores the title of a first interaction whose title
\* generation failed stores a title that is Ok for the module and the input.
C7_Stores(Ok(_, _, _)) ==
    /\ \A i \in 1..Len(reqs) :
          (module \in SessionModules /\ reqs[i].pc = "update"
              /\ reqs'[i].pc = "done" /\ reqs[i].first
              /\ reqs[i].title_gen \in TitleFailed)
            => Ok(module, collection'[reqs[i].session_id].title, reqs[i].input)
    /\ \A i \in 1..Len(reqs') :
          (module = "temp_chat"
              /\ (i > Len(reqs) \/ reqs[i].pc = "title")
              /\ reqs'[i].pc # "title")
            => LET r == IF reqs'[i].pc = "reply" THEN reqs'[i] ELSE response'
               IN  (r.first /\ r.title_gen \in TitleFailed)
                     => Ok(module, TEMP_SESSIONS'[r.session_id].title, r.input)

\* C7 as stated: when title generation fails on the first interaction the
\* title stored is a prefix of the first input, optionally followed by an
\* ellipsis.
C7_TitleTruncatesInput == [][C7_Stores(C7_AsStated)]_vars

\* C7 amended: when title generation fails on the first interaction the
\* title stored is the first 40 characters of the text handed to title
\* generation, stripped of surrounding white space, followed by an ellipsis
\* when that text is longer than 40 characters; the text is the first input
\* in chat and temp chat and the prompt built from the tool, platform or
\* agent name and the request in business, social and agents.
C7_TitleTruncatesPrompt == [][C7_Stores(C7_AsAmended)]_vars

\* A business session titled by the fallback: a truncation of the prompt
\* that is no truncation of the request.
C7_Witness ==
    /\ module = "business"
    /\ response.op = "save_interaction"
    /\ response.status = 200
    /\ response.first
    /\ response.title_gen = "api_fail"
    /\ collection[response.session_id] # NoDoc
    /\ collection[response.session_id].title
           = C7_Cut(title_prompt(module, response.input))
    /\ ~IsTruncationOf(collection[response.session_id].title, response.input)

\* The group sends on group g at position pc.
Sends(g, pc) ==
    {i \in 1..Len(reqs) :
        reqs[i].op = "send_message" /\ reqs[i].group_id = g /\ reqs[i].pc = pc}

\* C8: the message list of a group holds two entries for every completed
\* send on it, the sender's message and after it the reply, and one for
\* every send that has not completed (under way, or cut short by a
\* restart); with n sends completed and no other it holds exactly 2n entries.
C8_TwoPerSend ==
    \A g \in GroupIds :
        groups[g] # NoDoc =>
            LET messages == groups[g].messages
            IN  /\ Len(messages) = 2 * Cardinality(Sends(g, "done"))
                                     + Cardinality(Sends(g, "push_reply"))
                                     + Cardinality(Sends(g, "aborted"))
                /\ \A i \in Sends(g, "done") :
                      \E j, k \in 1..Len(messages) :
                          /\ j < k
                          /\ messages[j].id = i /\ ~messages[j].is_ai
                          /\ messages[k].id = i /\ messages[k].is_ai

\* Two sends completed on a group and its history holds four messages.
C8_Witness ==
    \E g \in GroupIds :
        /\ groups[g] # NoDoc
        /\ Cardinality(Sends(g, "done")) = 2
        /\ Sends(g, "push_reply") = {}
        /\ Sends(g, "aborted") = {}
        /\ Len(groups[g].messages) = 4

\* C9: in a group's message list the user message of a send precedes the
\* reply of that send, and a send between its two writes has its user
\* message stored without a reply.
C9_UserBeforeReply ==
    \A g \in GroupIds :
        groups[g] # NoDoc =>
            LET messages == groups[g].messages
            IN  /\ \A k \in 1..Len(messages) :
                      messages[k].is_ai =>
                          \E j \in 1..(k - 1) :
                              messages[j].id = messages[k].id /\ ~messages[j].is_ai
                /\ \A i \in Sends(g, "push_reply") :
                      /\ \E j \in 1..Len(messages) :
                            messages[j].id = i /\ ~messages[j].is_ai
                      /\ \A k \in 1..Len(messages) :
                            messages[k].id = i => ~messages[k].is_ai

\* Another sender's message is stored between a user message and its reply.
C9_Witness ==
    \E g \in GroupIds :
        /\ groups[g] # NoDoc
        /\ \E j, m, k \in 1..Len(groups[g].messages) :
              LET messages == groups[g].messages
              IN  /\ j < m /\ m < k
                  /\ ~messages[j].is_ai /\ messages[k].is_ai
                  /\ messages[j].id = messages[k].id
                  /\ ~messages[m].is_ai
                  /\ messages[m].user_id # messages[j].user_id

\* A delete of a session its sender owns answers 200 and removes exactly
\* that session; a delete of a session that is not stored answers 404 and
\* changes nothing, and so does the delete that repeats the one answered
\* 200 just before.
C10_Step ==
    (module \in SessionModules \cup PushModules
        /\ response'.op = "delete"
        /\ <<response', collection'>> # <<response, collection>>)
      => LET s == response'.session_id
             u == response'.user_id
         IN  /\ Matches(u, s)
                  => /\ response'.status = 200
                     /\ collection' = [collection EXCEPT ![s] = NoDoc]
             /\ collection[s] = NoDoc
                  => response'.status = 404 /\ collection' = collection
             /\ (response.op = "delete" /\ response.status = 200
                    /\ response.user_id = u /\ response.session_id = s)
                  => response'.status = 404 /\ collection' = collection

\* C10: the first delete of a persisted session by its owner succeeds and
\* removes it; the same delete repeated with nothing in between fails with
\* 404 and changes nothing.
C10_DeleteTwice == [][C10_Step]_vars

\* The delete answered 200 was repeated and answered 404.
C10_Witness ==
    /\ response.op = "delete"
    /\ response.repeat
    /\ response.status = 404
    /\ collection[response.session_id] = NoDoc

\* The step is a session delete by user u on session s.
C11_Step ==
    /\ \A s \in SessionIds :
          (collection[s] # NoDoc /\ collection'[s] = NoDoc)
            => /\ response'.op = "delete"
               /\ response'.session_id = s
               /\ response'.user_id = collection[s].user_id
    /\ (response'.op = "delete"
          /\ <<response', collection'>> # <<response, collection>>
          /\ collection[response'.session_id] # NoDoc
          /\ collection[response'.session_id].user_id # response'.user_id)
        => response'.status = 404 /\ collection' = collection

\* C11: a stored session is removed only by a delete request of its owner;
\* a delete sent by any other user is answered 404 and leaves it stored
\* (chat, business, social, agents, global-language, student).
C11_DeleteOwnerScoped == [][C11_Step]_vars

\* A group is removed only by a delete of its creator, which is answered
\* 200; any other user's delete is answered 403 and a delete of a group
\* that is not stored 404, and both leave the groups as they are.
C12_Step ==
    /\ \A g \in GroupIds :
          (groups[g] # NoDoc /\ groups'[g] = NoDoc)
            => /\ response'.op = "delete_group"
               /\ response'.group_id = g
               /\ response'.user_id = groups[g].creator_id
               /\ response'.status = 200
    /\ (response'.op = "delete_group" /\ response' # response)
        => LET g == response'.group_id
               u == response'.user_id
           IN  IF groups[g] = NoDoc
               THEN response'.status = 404 /\ groups' = groups
               ELSE IF groups[g].creator_id # u
               THEN response'.status = 403 /\ groups' = groups
               ELSE /\ response'.status = 200
                    /\ groups' = [groups EXCEPT ![g] = NoDoc]

\* C12: delete_group removes a group only for its creator; a delete by any
\* other user, member or not, is rejected and leaves the group, its members
\* and its messages unchanged; a delete of an unknown group is not-found.
C12_CreatorDeletes == [][C12_Step]_vars

\* A member who is not the creator was refused and the group still holds
\* its members and its messages.
C12_Witness ==
    /\ response.op = "delete_group"
    /\ response.status = 403
    /\ groups[response.group_id] # NoDoc
    /\ InSeq(response.user_id, groups[response.group_id].members)
    /\ Len(groups[response.group_id].messages) > 0

\* A restart leaves no temporary session and every persisted document as
\* it was; a send to a temporary session that is gone is answered 404; the
\* history of a persisted session is answered with the stored document.
C13_Step ==
    /\ (response'.op = "restart" /\ response' # response)
        => /\ \A s \in SessionIds : TEMP_SESSIONS'[s] = NoDoc
           /\ collection' = collection
           /\ groups' = groups
           /\ group_chat_sessions' = group_chat_sessions
    /\ (response'.op = "send_temp_message" /\ response' # response
          /\ reqs' = reqs /\ response.op = "restart")
        => response'.status = 404
    /\ (module \in SessionModules /\ response'.op = "history"
          /\ response' # response
          /\ Matches(response'.user_id, response'.session_id))
        => /\ response'.status = 200
           /\ response'.session = collection[response'.session_id]

\* C13: a restart empties the temporary-session table, so a temporary
\* session created before it is not-found afterwards, while a persisted
\* session is still retrievable with the same title and history.
C13_RestartLosesTemp == [][C13_Step]_vars

\* A temporary session that had been created is not-found after a restart.
C13_Witness ==
    /\ module = "temp_chat"
    /\ response.op = "send_temp_message"
    /\ response.status = 404
    /\ response.session_id \in 1..issued
    /\ TEMP_SESSIONS[response.session_id] = NoDoc

\* C14: nothing orders concurrent send_temp_message requests on a
\* temporary session beyond each request's own two appends: a reply is
\* stored after the user message of its request, and a request waiting for
\* its completion has its user message stored and no reply, whatever other
\* requests have appended meanwhile.
C14_TempOwnOrderOnly ==
    module = "temp_chat" =>
        /\ \A s \in SessionIds :
              TEMP_SESSIONS[s] # NoDoc =>
                  \A k \in 1..Len(TEMP_SESSIONS[s].entries) :
                      TEMP_SESSIONS[s].entries[k].role = "assistant" =>
                          \E j \in 1..(k - 1) :
                              TEMP_SESSIONS[s].entries[j]
                                  = Entry(TEMP_SESSIONS[s].entries[k].id, "user")
        /\ \A i \in 1..Len(reqs) :
              reqs[i].pc = "reply" =>
                  LET entries == TEMP_SESSIONS[reqs[i].session_id].entries
                  IN  /\ \E j \in 1..Len(entries) : entries[j] = Entry(i, "user")
                      /\ \A k \in 1..Len(entries) : entries[k] # Entry(i, "assistant")

\* The second request's user message lies between the first request's user
\* message and its reply.
C14_Witness ==
    \E s \in SessionIds :
        /\ TEMP_SESSIONS[s] # NoDoc
        /\ \E j, m, k \in 1..Len(TEMP_SESSIONS[s].entries) :
              LET entries == TEMP_SESSIONS[s].entries
              IN  /\ j < m /\ m < k
                  /\ entries[j].role = "user"
                  /\ entries[k] = Entry(entries[j].id, "assistant")
                  /\ entries[m].role = "user"
                  /\ entries[m].id > entries[j].id

\* The create handlers hand out an identifier no earlier create returned,
\* store the new document where nothing is stored and leave every other
\* stored document as it was.
C15_Step ==
    /\ (module # "group_chat" /\ response'.op = "create_session"
          /\ response' # response)
        => LET s == response'.session_id
           IN  /\ s \notin 1..issued
               /\ collection[s] = NoDoc /\ TEMP_SESSIONS[s] = NoDoc
               /\ \A t \in SessionIds \ {s} :
                     /\ collection'[t] = collection[t]
                     /\ TEMP_SESSIONS'[t] = TEMP_SESSIONS[t]
    /\ (module = "group_chat" /\ response'.op = "create_session"
          /\ response' # response)
        => LET s == response'.session_id
           IN  /\ group_chat_sessions[s] = NoDoc
               /\ \A t \in GroupSessionIds \ {s} :
                     group_chat_sessions'[t] = group_chat_sessions[t]
               /\ groups' = groups
    /\ (response'.op = "create_group" /\ response'.status = 201
          /\ response' # response)
        => LET g == response'.group_id
           IN  /\ g \notin 1..issued
               /\ groups[g] = NoDoc
               /\ \A h \in GroupIds \ {g} : groups'[h] = groups[h]
               /\ group_chat_sessions' = group_chat_sessions

C16_Step ==
    \A u \in Users, s \in SessionIds :
        /\ (module = "chat" /\ Matches(u, s)
              /\ \E api \in TitleApi, c \in {"ok", "fail"} :
                     send_message(u, s, MsgEmpty, "none", FALSE, api, c))
            => /\ response'.op = "send_message"
               /\ response'.status = 400
               /\ collection' = collection
               /\ reqs' = reqs
        /\ (module = "temp_chat" /\ TEMP_SESSIONS[s] # NoDoc
              /\ TEMP_SESSIONS[s].user_id = u
              /\ send_temp_message(u, s, MsgEmpty, "none", FALSE))
            => /\ response'.op = "send_temp_message"
               /\ response'.status = 400
               /\ TEMP_SESSIONS' = TEMP_SESSIONS
               /\ reqs' = reqs

\* C16: in chat and temp chat a send on the caller's own session with
\* empty text, no audio and no image ends as 400, appends nothing and
\* leaves the title as it was.
C16_EmptyRequestIs400 == [][C16_Step]_vars

\* An empty request on the caller's own session was answered 400.
C16_Witness ==
    /\ response.op \in {"send_message", "send_temp_message"}
    /\ response.status = 400
    /\ response.cause = "input"
    /\ \/ module = "chat" /\ Matches(response.user_id, response.session_id)
       \/ /\ module = "temp_chat"
          /\ TEMP_SESSIONS[response.session_id] # NoDoc
          /\ TEMP_SESSIONS[response.session_id].user_id = response.user_id

\* With the API key set, every step in which the speech-to-text,
\* completion, content or text-to-speech call of a request throws ends
\* the request with status 500 and nothing stored, except that a failed
\* transcription in chat and temp chat ends it with audio_status and that
\* a failed completion of a group send is answered group_status (and, when
\* that is a success, with the apology stored as the reply).
C17_Outcome(audio_status, group_status) ==
    OPENAI_API_KEY =>
        /\ \A u \in Users, s \in SessionIds :
              /\ (Matches(u, s)
                    /\ \E m \in Messages, img \in BOOLEAN, api \in TitleApi,
                          c \in {"ok", "fail"} :
                            send_message(u, s, m, "fail", img, api, c))
                  => /\ response'.status = audio_status
                     /\ reqs' = reqs /\ collection' = collection
              /\ (Matches(u, s)
                    /\ \E m \in Messages, a \in {"none", "speech"},
                          img \in BOOLEAN, api \in TitleApi :
                            /\ user_message_text(m, a) # <<>> \/ img
                            /\ send_message(u, s, m, a, img, api, "fail"))
                  => /\ response'.status = 500
                     /\ reqs' = reqs /\ collection' = collection
              /\ (TEMP_SESSIONS[s] # NoDoc /\ TEMP_SESSIONS[s].user_id = u
                    /\ \E m \in Messages, img \in BOOLEAN :
                            send_temp_message(u, s, m, "fail", img))
                  => /\ response'.status = audio_status
                     /\ reqs' = reqs /\ TEMP_SESSIONS' = TEMP_SESSIONS
              /\ (\E d \in Payloads(module), api \in TitleApi :
                            save_interaction(u, s, d, "fail", api))
                  => /\ response'.status = 500
                     /\ reqs' = reqs /\ collection' = collection
              /\ (collection[s] # NoDoc
                    /\ \E a \in {"fail", "silent", "speech"},
                          c \in {"ok", "fail"}, t \in {"ok", "fail"} :
                            \/ process_interaction(u, s, "voice", "fail", c, t)
                            \/ /\ a # "fail"
                               /\ process_interaction(u, s, "voice", a, "ok", "fail")
                            \/ \E k \in {"chat", "voice", "tool"} :
                                  /\ k # "voice" \/ a = "speech"
                                  /\ process_interaction(u, s, k, a, "fail", t))
                  => /\ response'.status = 500
                     /\ reqs' = reqs /\ collection' = collection
        /\ \A i \in 1..Len(reqs) :
              /\ (module = "temp_chat" /\ temp_store_reply(i, "fail"))
                  => /\ response'.status = 500
                     /\ TEMP_SESSIONS' = TEMP_SESSIONS
              /\ (module = "group_chat" /\ group_push_reply(i, "fail"))
                  => /\ response'.status = group_status
                     /\ (group_status = 200 /\ groups[reqs[i].group_id] # NoDoc)
                          => Last(groups'[reqs[i].group_id].messages)
                                 = GroupMessage(i, "AI", TRUE, "fallback")

C18_Step ==
    \A u \in Users, s \in SessionIds :
        (/\ module = "temp_chat"
         /\ TEMP_SESSIONS[s] # NoDoc
         /\ TEMP_SESSIONS[s].user_id # u
         /\ \E m \in Messages, a \in AudioInputs, img \in BOOLEAN :
                send_temp_message(u, s, m, a, img))
        => response'.status = 404

C18_TempNonOwnerIs404 == [][C18_Step]_vars

\* The requests on session s whose call returns success in this step.
C19_Returning(s) ==
    {i \in 1..Len(reqs) :
        /\ reqs[i].pc = "update"
        /\ reqs[i].session_id = s
        /\ reqs'[i].pc = "done"
        /\ response'.status = 200}

C19_Step ==
    module \in PushModules =>
        \A s \in SessionIds :
            /\ (collection[s] = NoDoc /\ collection'[s] # NoDoc)
                => collection'[s].entries = <<>>
            /\ (collection[s] # NoDoc /\ collection'[s] # NoDoc)
                => IF C19_Returning(s) = {}
                   THEN collection'[s].entries = collection[s].entries
                   ELSE \E i \in C19_Returning(s) :
                           collection'[s].entries
                               = Append(collection[s].entries,
                                        Entry(i, "interaction"))

\* C19: a student or global-language session starts with an empty history,
\* every tool/chat/voice call on it that returns success appends exactly
\* its own interaction at the end, and nothing else changes the history
\* while the session is stored; so the history holds one interaction per
\* successful call, in the order the calls completed, also when the calls
\* overlap.
C19_OneInteractionPerCall == [][C19_Step]_vars

\* Two overlapping calls on one session completed in the opposite order of
\* their arrival, and the history holds both in completion order.
C19_Witness ==
    /\ module \in PushModules
    /\ \E s \in SessionIds :
          /\ collection[s] # NoDoc
          /\ collection[s].entries
                = <<Entry(2, "interaction"), Entry(1, "interaction")>>

\* C20: a user other than the creator is in a group's stored member list
\* only through a join_group of theirs that returned successfully, and
\* from then on stays in the list in every step that leaves the group
\* stored, also when several users join the group concurrently.
C20_Step ==
    \A g \in GroupIds, u \in JoinUsers :
        (/\ groups[g] # NoDoc
         /\ groups'[g] # NoDoc
         /\ u # groups[g].creator_id
         /\ InSeq(u, groups[g].members))
        => InSeq(u, groups'[g].members)

C20_JoinedStays == [][C20_Step]_vars

C21_Step ==
    \A u \in Users, s \in GroupSessionIds :
        (/\ module = "group_chat"
         /\ group_chat_sessions[s] = NoDoc \/ group_chat_sessions[s].user_id # u
         /\ \/ create_group(u, s)
            \/ \E g \in GroupIds : join_group(u, s, g)
            \/ \E g \in GroupIds : group_send_message(u, s, g))
        => /\ response'.status = 401
           /\ groups' = groups
           /\ issued' = issued
           /\ reqs' = reqs

\* C21: a create_group, join_group or group send_message whose
\* (session_id, user_id) pair was not stored by the group-chat
\* create_session is rejected (401), creates no group and changes no
\* group's member list or message list.
C21_SessionRequired == [][C21_Step]_vars

\* A send_message with another user's session was rejected while a group
\* was stored.
C21_Witness ==
    /\ module = "group_chat"
    /\ response.op = "send_message"
    /\ response.status = 401
    /\ group_chat_sessions[response.session_id] # NoDoc
    /\ group_chat_sessions[response.session_id].user_id # response.user_id
    /\ groups[response.group_id] # NoDoc

C22_Step ==
    module = "group_chat" =>
        /\ \A u \in Users, s \in GroupSessionIds, g \in GroupIds :
              (/\ validate_session(s, u)
               /\ groups[g] # NoDoc
               /\ InSeq(u, groups[g].members)
               /\ group_send_message(u, s, g))
              => /\ Len(reqs') = Len(reqs) + 1
                 /\ Last(reqs').pc = "push_reply"
        /\ \A i \in 1..Len(reqs), c \in {"ok", "fail"} :
              group_push_reply(i, c)
              => /\ response'.op = "send_message"
                 /\ response'.status = 200
                 /\ response'.cause
                        = IF c = "fail" \/ ~OPENAI_API_KEY
                          THEN "fallback" ELSE "generated"
                 /\ groups[reqs[i].group_id] # NoDoc
                      => groups'[reqs[i].group_id].messages
                           = Append(groups[reqs[i].group_id].messages,
                                    GroupMessage(i, "AI", TRUE, response'.cause))

\* C22: a group send_message by a member with a valid session is taken up
\* and, when its completion call returns or fails, answers 200 with an
\* AI-authored message (is_ai true, user "AI") that it appends to the
\* group's messages; the content is the fixed fallback text when the
\* completion failed and the generated text otherwise.
C22_AlwaysReplies == [][C22_Step]_vars

\* With the API key set, a send whose completion failed returned success
\* and the fallback text is the group's newest message.
C22_Witness ==
    /\ module = "group_chat"
    /\ OPENAI_API_KEY
    /\ response.op = "send_message"
    /\ response.status = 200
    /\ response.cause = "fallback"
    /\ groups[response.group_id] # NoDoc
    /\ Len(groups[response.group_id].messages) = 2
    /\ Last(groups[response.group_id].messages).is_ai
    /\ Last(groups[response.group_id].messages).content = "fallback"

\* C23: for every completion text _parse_suggestions returns between one
\* and four suggestions: the first four of the text's lines that, with
\* white space and list markers stripped, are longer than ten characters,
\* in the order of the text (none of them beginning with white space, a
\* digit or a bullet); and the single whole stripped text when no line
\* qualifies.
C23_OneToFourSuggestions ==
    response.op = "get_suggestions" =>
        LET out == response.session.suggestions
            kept == collect_suggestions(split_lines(response.input))
        IN  /\ Len(out) >= 1
            /\ Len(out) <= MaxSuggestions
            /\ kept = <<>> => out = <<strip_chars(response.input, WhiteSpace)>>
            /\ kept # <<>> =>
                  /\ Len(out) = (IF Len(kept) < MaxSuggestions
                                 THEN Len(kept) ELSE MaxSuggestions)
                  /\ \A k \in 1..Len(out) :
                        /\ out[k] = kept[k]
                        /\ Len(out[k]) > MinSuggestionLen
                        /\ Head(out[k]) \notin WhiteSpace \cup Digits \cup {"-", "*"}

\* A text with five qualifying lines was parsed into four suggestions.
C23_Witness ==
    /\ response.op = "get_suggestions"
    /\ Len(collect_suggestions(split_lines(response.input))) = MaxSuggestions + 1
    /\ Len(response.session.suggestions) = MaxSuggestions

C24_Step ==
    \A s \in SessionIds :
        (/\ module \in SessionModules
         /\ s <= issued
         /\ collection[s] = NoDoc)
        => collection'[s] = NoDoc

\* C24: in chat, business, social and agents a session that was created
\* and then deleted stays absent: no later step, in particular none of a
\* send/save request in flight when the delete ran, stores a document
\* under its identifier again.
C24_DeletedStaysAbsent == [][C24_Step]_vars

C25_Step ==
    (/\ module \in SessionModules \cup PushModules
     /\ response'.status >= 400)
    => collection' = collection

\* C25: in chat, business, social, agents, global-language and student a
\* step in which a request is answered with an error (400, 404 or 500)
\* changes no stored session, and such a request has no earlier step that
\* stores anything; so a request that ends in an error leaves every stored
\* session as it was.
C25_ErrorStoresNothing == [][C25_Step]_vars

\* A request on a stored session with a history ended in a server error
\* because the text-to-speech or completion call failed.
C25_Witness ==
    /\ module \in SessionModules \cup PushModules
    /\ response.status = 500
    /\ response.cause \in {"completion", "tts"}
    /\ collection[response.session_id] # NoDoc
    /\ collection[response.session_id].entries # <<>>

\* The send_temp_message requests that end in an error in this step.
C26_Failing ==
    {i \in 1..Len(reqs') :
        /\ reqs'[i].pc = "done"
        /\ i <= Len(reqs) => reqs[i].pc # "done"
        /\ response'.op = "send_temp_message"
        /\ response'.status >= 400}

C26_Step ==
    module = "temp_chat" =>
        \A i \in C26_Failing, s \in SessionIds :
            TEMP_SESSIONS'[s] # NoDoc
            => \A k \in 1..Len(TEMP_SESSIONS'[s].entries) :
                  TEMP_SESSIONS'[s].entries[k].id # i

\* C26: when a send_temp_message request ends in an error, the message
\* list of the temporary session holds nothing of that request.
C26_TempErrorStoresNothing == [][C26_Step]_vars

\* C27: in every reachable state the stored message list of every chat
\* session has even length and alternates user message and assistant
\* reply, starting with a user message.
C27_MessagesAlternate ==
    module = "chat" =>
        \A s \in SessionIds :
            collection[s] # NoDoc =>
                LET messages == collection[s].entries
                IN  /\ Len(messages) % 2 = 0
                    /\ \A k \in 1..Len(messages) :
                          messages[k].role
                              = IF k % 2 = 1 THEN "user" ELSE "assistant"

\* Two overlapping sends on one session have both been stored, the later
\* write replacing the earlier one, and the list is one user message and
\* its reply.
C27_Witness ==
    /\ module = "chat"
    /\ Len(reqs) = 2
    /\ \A i \in 1..2 : reqs[i].op = "send_message" /\ reqs[i].pc = "done"
    /\ \E s \in SessionIds :
          /\ collection[s] # NoDoc
          /\ Len(collection[s].entries) = 2

\* C28: in every reachable state each stored group's member list contains
\* the group's creator and no user id twice, whatever the interleaving of
\* create_group and join_group requests.
C28_MembersDistinct ==
    \A g \in GroupIds :
        groups[g] # NoDoc =>
            LET members == groups[g].members
            IN  /\ InSeq(groups[g].creator_id, members)
                /\ \A j, k \in 1..Len(members) : members[j] = members[k] => j = k

\* Two joins of one user overlapped: the first has stored the user and the
\* second, which read the list before that, is about to write.
C28_Witness ==
    /\ Len(reqs) = 2
    /\ reqs[1].op = "join_group" /\ reqs[1].pc = "done"
    /\ reqs[2].op = "join_group" /\ reqs[2].pc = "update"
    /\ groups[reqs[2].group_id] # NoDoc
    /\ InSeq(reqs[2].user_id, groups[reqs[2].group_id].members)

====
